---- MODULE Spec2Model ----
(***************************************************************************)
(* Client-side state of the career-learning frontend: the Quiz wizard, the *)
(* progress aggregation of the Dashboard and the Profile, the Certificates *)
(* screen, the Login and Signup forms and the achievement lookup of        *)
(* AchievementBadge and AchievementPopup.  One component is mounted at a   *)
(* time.  JavaScript arrays are 0-based; the sequences below are 1-based,  *)
(* so the JS element arr[i] is the TLA+ element arr[i + 1].                *)
(***************************************************************************)
EXTENDS Integers, Sequences, FiniteSets, TLC

\* Largest number of questions GET /api/quiz/questions returns.
MaxQuestions == 3
\* Number of options of every question.
NumOptions == 2
\* Largest number of records GET /api/progress/{userId} returns.
MaxProgress == 3
\* Largest number of certificates GET /api/user/{userId}/certificates returns.
MaxCertificates == 2
\* Largest number of certificate downloads in flight at once.
MaxDownloads == 2

VARIABLES
    \* ---- Quiz component state (useState hooks) ----
    questions,        \* list of questions [id |-> ...], in the order the backend sent them
    currentQuestion,  \* 0-based index of the question shown
    answers,          \* JS array of answers, holes read as undefined
    loading,          \* Quiz loading flag
    submitting,       \* Quiz submitting flag
    results,          \* null or the recommendation payload
    \* ---- Quiz environment ----
    questionsReq,     \* state of GET /api/quiz/questions: "pending" or "settled"
    submitReq,        \* body of the POST /api/quiz/submit in flight, or NoRequest
    alertMsg,         \* text of the last alert() shown, "" when none yet
    crashed,          \* TRUE once the render of the wizard has thrown
    \* ---- Quiz history (what the user did, kept for the properties) ----
    lastSelected,     \* question index -> the option the user selected last for it
    replaced,         \* TRUE once a selection replaced a different stored answer
    atSubmit,         \* answers and index at the click that started the POST in flight,
                      \* NoRequest when none is in flight
    \* ---- Dashboard component state (useState hooks) ----
    careerPaths,      \* catalog: list of [id, milestones], milestones = its length
    userProgress,     \* list of [career_path_id, completed_milestones], the latter
                      \* = its length
    achievements,     \* list of achievement ids
    dashLoading,      \* Dashboard loading flag
    \* ---- Dashboard environment ----
    dashReq,          \* state of each of the three GETs of fetchDashboardData
    dashCaught,       \* what the catch block of fetchDashboardData caught
    \* ---- Profile component state (useState hooks) ----
    stats,            \* the five counters shown by the Profile
    profLoading,      \* Profile loading flag
    \* ---- Profile environment ----
    profReq,          \* state of each of the three GETs of fetchStats
    statsMilestones,  \* milestone counts of the paths fetchStats counted as completed, summed
    \* ---- Certificates component state (useState hooks) ----
    certificates,     \* list of certificates [id |-> ...]
    certLoading,      \* Certificates loading flag
    \* ---- Certificates environment ----
    certReq,          \* state of GET /api/user/{userId}/certificates
    downloads,        \* number of GET /api/certificate/download/{id} in flight
    certAlert,        \* text of the last alert() shown, "" when none yet
    \* ---- Login component state (useState hooks) ----
    loginError,       \* Login error text, "" when none is shown
    loginLoading,     \* Login loading flag
    \* ---- Login environment ----
    loginReq,         \* the call of login(): idle, pending, or how it settled last
    loginNavigated,   \* the route Login navigated to, "" when it has not
    \* ---- Signup component state (useState hooks) ----
    password,         \* Signup password field
    confirmPassword,  \* Signup confirm-password field
    signupError,      \* Signup error text, "" when none is shown
    signupLoading,    \* Signup loading flag
    \* ---- Signup environment ----
    signupReq,        \* the call of signup(): idle, pending, or how it settled last
    signupNavigated,  \* the route Signup navigated to, "" when it has not
    \* ---- AchievementBadge and AchievementPopup ----
    rendered,         \* what the last render of the component returned
    \* ---- AuthContext ----
    user,             \* the authenticated user every screen reads with useAuth()
    \* ---- Router ----
    mounted,          \* the component the current route has mounted
    \* ---- Network (history) ----
    issued            \* number of HTTP requests the last step sent (at the
                      \* start: the mount)

qvars == <<questions, currentQuestion, answers, loading, submitting, results,
           questionsReq, submitReq, alertMsg, crashed, lastSelected, replaced,
           atSubmit>>

dvars == <<careerPaths, userProgress, achievements, dashLoading, dashReq, dashCaught>>

pvars == <<stats, profLoading, profReq, statsMilestones>>

cvars == <<certificates, certLoading, certReq, downloads, certAlert>>

lvars == <<loginError, loginLoading, loginReq, loginNavigated>>

svars == <<password, confirmPassword, signupError, signupLoading, signupReq,
           signupNavigated>>

avars == <<rendered>>

vars == <<qvars, dvars, pvars, cvars, lvars, svars, avars, user, mounted, issued>>

\* What the handlers of one component leave alone: the state of the others
\* and the route.
notQuiz == <<dvars, pvars, cvars, lvars, svars, avars, user, mounted>>
notDash == <<qvars, pvars, cvars, lvars, svars, avars, user, mounted>>
notProfile == <<qvars, dvars, cvars, lvars, svars, avars, user, mounted>>
notCertificates == <<qvars, dvars, pvars, lvars, svars, avars, user, mounted>>
notLogin == <<qvars, dvars, pvars, cvars, svars, avars, user, mounted>>
notSignup == <<qvars, dvars, pvars, cvars, lvars, avars, user, mounted>>
notAchievement == <<qvars, dvars, pvars, cvars, lvars, svars, user, mounted>>

\* ------------------------------------------------------------------------
\* JavaScript values
\* ------------------------------------------------------------------------

\* The value of a hole of an array and of a read past its end.
undefined == [undefined |-> TRUE]

\* The initial value of results.
null == [null |-> TRUE]

\* No POST /api/quiz/submit is in flight.
NoRequest == [request |-> FALSE]

\* JS truthiness of an answers slot or of results (objects are truthy).
Truthy(x) == x # undefined /\ x # null

\* arr[i] of a JS array: undefined outside the array.
At(arr, i) == IF i + 1 \in DOMAIN arr THEN arr[i + 1] ELSE undefined

Max(a, b) == IF a >= b THEN a ELSE b

\* Mutation of SetAt: the new answer is pushed at the end of the array.
SetAtPush(arr, i, v) == Append(arr, v)

\* newAnswers = [...arr]; newAnswers[i] = v.  Writing past the end extends the
\* array, the slots in between are holes.
SetAt(arr, i, v) ==
    [k \in 1..Max(Len(arr), i + 1) |->
        IF k = i + 1 THEN v
        ELSE IF k <= Len(arr) THEN arr[k] ELSE undefined]

\* ------------------------------------------------------------------------
\* Backend responses
\* ------------------------------------------------------------------------

\* The question lists the backend may answer with: n questions whose ids are
\* n, n - 1, ..., 1 (so the id of a question differs from its position).
QuestionLists ==
    {[i \in 1..n |-> [id |-> n + 1 - i]] : n \in 0..MaxQuestions}

\* The recommendation payloads POST /api/quiz/submit may answer with.
LearningStyles == {"video", "article"}

Options == 0..(NumOptions - 1)

\* ------------------------------------------------------------------------
\* Quiz: what the render shows
\* ------------------------------------------------------------------------

\* The render reaches the wizard branch (neither the spinner nor the results)
\* and the component is still mounted.
WizardShown == ~loading /\ ~Truthy(results) /\ ~crashed

\* const question = questions[currentQuestion]; question.question throws a
\* TypeError when question is undefined.
RenderThrows(qs, cq) == At(qs, cq) = undefined

PreviousDisabled == currentQuestion = 0

\* currentQuestion < questions.length - 1 ? <Next> : <Submit>
NextShown == currentQuestion < Len(questions) - 1

\* Mutation of NextDisabled: Next is never disabled.
NextDisabledNever == FALSE

NextDisabled == ~Truthy(At(answers, currentQuestion))

\* Mutation of SubmitDisabled: the submitting flag is not consulted.
SubmitDisabledNoFlag == Len(answers) # Len(questions)

SubmitDisabled == Len(answers) # Len(questions) \/ submitting

\* ------------------------------------------------------------------------
\* Quiz: initial state and handlers
\* ------------------------------------------------------------------------

QuizInit ==
    /\ questions = <<>>
    /\ currentQuestion = 0
    /\ answers = <<>>
    /\ loading = TRUE
    /\ submitting = FALSE
    /\ results = null
    /\ questionsReq = "pending"
    /\ submitReq = NoRequest
    /\ alertMsg = ""
    /\ crashed = FALSE
    /\ lastSelected = <<>>
    /\ replaced = FALSE
    /\ atSubmit = NoRequest

\* fetchQuestions, try branch: the GET resolved with the list qs.
fetchQuestionsResolved(qs) ==
    /\ mounted = "Quiz"
    /\ issued' = 0
    /\ questionsReq = "pending"
    /\ questionsReq' = "settled"
    /\ questions' = qs
    /\ loading' = FALSE
    /\ crashed' = RenderThrows(qs, currentQuestion)
    /\ UNCHANGED <<currentQuestion, answers, submitting, results, submitReq,
                   alertMsg, lastSelected, replaced, atSubmit>>
    /\ UNCHANGED notQuiz

\* fetchQuestions whose catch branch leaves the loading flag set.
fetchQuestionsRejectedKeepsLoading ==
    /\ mounted = "Quiz"
    /\ issued' = 0
    /\ questionsReq = "pending"
    /\ questionsReq' = "settled"
    /\ crashed' = crashed
    /\ UNCHANGED <<questions, currentQuestion, answers, loading, submitting, results,
                   submitReq, alertMsg, lastSelected, replaced, atSubmit>>
    /\ UNCHANGED notQuiz

\* fetchQuestions, catch branch: the GET rejected.
fetchQuestionsRejected ==
    /\ mounted = "Quiz"
    /\ issued' = 0
    /\ questionsReq = "pending"
    /\ questionsReq' = "settled"
    /\ loading' = FALSE
    /\ crashed' = RenderThrows(questions, currentQuestion)
    /\ UNCHANGED <<questions, currentQuestion, answers, submitting, results,
                   submitReq, alertMsg, lastSelected, replaced, atSubmit>>
    /\ UNCHANGED notQuiz

\* The answer object handleAnswer stores.
NewAnswer(optionIndex) ==
    [question_id |-> At(questions, currentQuestion).id, selected_option |-> optionIndex]

\* Click on option optionIndex of the question shown.
handleAnswer(optionIndex) ==
    /\ mounted = "Quiz"
    /\ issued' = 0
    /\ WizardShown
    /\ answers' = SetAt(answers, currentQuestion, NewAnswer(optionIndex))
    /\ lastSelected' = [i \in DOMAIN lastSelected \cup {currentQuestion} |->
                          IF i = currentQuestion THEN optionIndex ELSE lastSelected[i]]
    /\ replaced' = (\/ replaced
                    \/ /\ Truthy(At(answers, currentQuestion))
                       /\ At(answers, currentQuestion).selected_option # optionIndex)
    /\ UNCHANGED <<questions, currentQuestion, loading, submitting, results,
                   questionsReq, submitReq, alertMsg, crashed, atSubmit>>
    /\ UNCHANGED notQuiz

\* Mutation of NextIndex: the handler does not test for the last question.
NextIndexUnguarded(cq) == cq + 1

\* The index handleNext leaves when called at index cq.
NextIndex(cq) == IF cq < Len(questions) - 1 THEN cq + 1 ELSE cq

\* Click on Next (rendered instead of Submit, and not disabled).
handleNext ==
    /\ mounted = "Quiz"
    /\ issued' = 0
    /\ WizardShown
    /\ NextShown
    /\ ~NextDisabled
    /\ currentQuestion' = NextIndex(currentQuestion)
    /\ UNCHANGED <<questions, answers, loading, submitting, results, questionsReq,
                   submitReq, alertMsg, crashed, lastSelected, replaced, atSubmit>>
    /\ UNCHANGED notQuiz

\* The index handlePrevious leaves when called at index cq.
PreviousIndex(cq) == IF cq > 0 THEN cq - 1 ELSE cq

\* Click on Previous (not disabled).
handlePrevious ==
    /\ mounted = "Quiz"
    /\ issued' = 0
    /\ WizardShown
    /\ ~PreviousDisabled
    /\ currentQuestion' = PreviousIndex(currentQuestion)
    /\ UNCHANGED <<questions, answers, loading, submitting, results, questionsReq,
                   submitReq, alertMsg, crashed, lastSelected, replaced, atSubmit>>
    /\ UNCHANGED notQuiz

\* Mutation of handleSubmit: the handler raises the loading flag (as the
\* login and signup forms do) instead of the submitting flag.
handleSubmitSetsLoading ==
    /\ mounted = "Quiz"
    /\ issued' = 1
    /\ WizardShown
    /\ ~NextShown
    /\ ~SubmitDisabled
    /\ loading' = TRUE
    /\ submitReq' = [request |-> TRUE, answers |-> answers]
    /\ atSubmit' = [request |-> TRUE, answers |-> answers,
                    currentQuestion |-> currentQuestion]
    /\ UNCHANGED <<questions, currentQuestion, answers, submitting, results,
                   questionsReq, alertMsg, crashed, lastSelected, replaced>>
    /\ UNCHANGED notQuiz

\* Click on Submit (rendered on the last question, and not disabled): the
\* handler up to its await.
handleSubmit ==
    /\ mounted = "Quiz"
    /\ issued' = IF Len(answers) # Len(questions) THEN 0 ELSE 1
    /\ WizardShown
    /\ ~NextShown
    /\ ~SubmitDisabled
    /\ IF Len(answers) # Len(questions)
       THEN /\ alertMsg' = "Please answer all questions"
            /\ UNCHANGED <<submitting, submitReq, atSubmit>>
       ELSE /\ submitting' = TRUE
            /\ submitReq' = [request |-> TRUE, answers |-> answers]
            /\ atSubmit' = [request |-> TRUE, answers |-> answers,
                            currentQuestion |-> currentQuestion]
            /\ UNCHANGED alertMsg
    /\ UNCHANGED <<questions, currentQuestion, answers, loading, results,
                   questionsReq, crashed, lastSelected, replaced>>
    /\ UNCHANGED notQuiz

\* Mutation of handleSubmitResolved: the handler also marks the quiz as
\* completed in the user object.
handleSubmitResolvedUpdatesUser(style) ==
    /\ mounted = "Quiz"
    /\ issued' = 0
    /\ submitReq # NoRequest
    /\ submitReq' = NoRequest
    /\ results' = [learning_style |-> style]
    /\ atSubmit' = NoRequest
    /\ user' = [user EXCEPT !.quiz_completed = TRUE]
    /\ UNCHANGED <<questions, currentQuestion, answers, loading, submitting,
                   questionsReq, alertMsg, crashed, lastSelected, replaced>>
    /\ UNCHANGED <<dvars, pvars, cvars, lvars, svars, avars, mounted>>

\* handleSubmit after its await, try branch: the POST resolved with a payload.
handleSubmitResolved(style) ==
    /\ mounted = "Quiz"
    /\ issued' = 0
    /\ submitReq # NoRequest
    /\ submitReq' = NoRequest
    /\ results' = [learning_style |-> style]
    /\ atSubmit' = NoRequest
    /\ UNCHANGED <<questions, currentQuestion, answers, loading, submitting,
                   questionsReq, alertMsg, crashed, lastSelected, replaced>>
    /\ UNCHANGED notQuiz

\* Mutation of handleSubmitRejected: the catch branch sends the POST again.
handleSubmitRejectedRetries ==
    /\ mounted = "Quiz"
    /\ issued' = 1
    /\ submitReq # NoRequest
    /\ alertMsg' = "Failed to submit quiz. Please try again."
    /\ UNCHANGED <<questions, currentQuestion, answers, loading, submitting, results,
                   questionsReq, submitReq, crashed, lastSelected, replaced,
                   atSubmit>>
    /\ UNCHANGED notQuiz

\* Mutation of handleSubmitRejected: the catch branch does not clear the
\* submitting flag.
handleSubmitRejectedKeepsFlag ==
    /\ mounted = "Quiz"
    /\ issued' = 0
    /\ submitReq # NoRequest
    /\ submitReq' = NoRequest
    /\ alertMsg' = "Failed to submit quiz. Please try again."
    /\ atSubmit' = NoRequest
    /\ UNCHANGED <<questions, currentQuestion, answers, loading, submitting, results,
                   questionsReq, crashed, lastSelected, replaced>>
    /\ UNCHANGED notQuiz

\* handleSubmit after its await, catch branch: the POST rejected.
handleSubmitRejected ==
    /\ mounted = "Quiz"
    /\ issued' = 0
    /\ submitReq # NoRequest
    /\ submitReq' = NoRequest
    /\ alertMsg' = "Failed to submit quiz. Please try again."
    /\ submitting' = FALSE
    /\ atSubmit' = NoRequest
    /\ UNCHANGED <<questions, currentQuestion, answers, loading, results,
                   questionsReq, crashed, lastSelected, replaced>>
    /\ UNCHANGED notQuiz

QuizNext ==
    \/ \E qs \in QuestionLists : fetchQuestionsResolved(qs)
    \/ fetchQuestionsRejected
    \/ \E o \in Options : handleAnswer(o)
    \/ handleNext
    \/ handlePrevious
    \/ handleSubmit
    \/ \E s \in LearningStyles : handleSubmitResolved(s)
    \/ handleSubmitRejected

\* ------------------------------------------------------------------------
\* JavaScript numbers of the progress aggregation
\* ------------------------------------------------------------------------

\* A finite number, NaN and Infinity.
Num(v) == [kind |-> "finite", val |-> v]
NaN == [kind |-> "NaN", val |-> 0]
Infinity == [kind |-> "Infinity", val |-> 0]

\* a + b of two non-negative JS numbers.
Plus(a, b) ==
    IF a.kind = "NaN" \/ b.kind = "NaN" THEN NaN
    ELSE IF a.kind = "Infinity" \/ b.kind = "Infinity" THEN Infinity
    ELSE Num(a.val + b.val)

\* Mutation of RoundPercent: Math.floor in the place of Math.round.
RoundPercentFloor(c, m) ==
    IF m = 0 THEN (IF c = 0 THEN NaN ELSE Infinity)
    ELSE Num((100 * c) \div m)

\* Math.round((c / m) * 100) for integers c, m >= 0: 0 / 0 is NaN, c / 0 is
\* Infinity, and Math.round rounds a half up.  On the milestone counts drawn
\* here the double result of (c / m) * 100 rounds as the exact quotient does
\* (it does not for every pair: 23 / 40 * 100 is 57.49999999999999).
RoundPercent(c, m) ==
    IF m = 0 THEN (IF c = 0 THEN NaN ELSE Infinity)
    ELSE Num((200 * c + m) \div (2 * m))

\* Math.round(s / n) for a JS number s >= 0 and an integer n > 0.
RoundQuotient(s, n) ==
    IF s.kind = "finite" THEN Num((2 * s.val + n) \div (2 * n)) ELSE s

\* ------------------------------------------------------------------------
\* Backend data of the Dashboard and the Profile
\* ------------------------------------------------------------------------

\* Ids of the career paths of the catalog, and an id the catalog does not hold.
PathIds == {1, 2, 3}
UnknownPathId == Cardinality(PathIds) + 1

\* Milestone counts of a career path.
MilestoneCounts == {0, 2, 3, 4, 5, 200}

\* The catalogs GET /api/career-paths may answer with: the paths 1, 2, 3 with
\* pairwise different milestone counts, listed by increasing count (the
\* aggregation looks paths up by id and never reads their order).  Every
\* milestone count occurs in one of them, and <<2, 4, 5>> is the catalog of the
\* worked example.
Catalogs ==
    {c \in {<<0, 2, 3>>, <<0, 3, 200>>, <<2, 4, 5>>, <<3, 5, 200>>} :
        /\ \A i \in DOMAIN c : c[i] \in MilestoneCounts
        /\ \A i \in DOMAIN c : \A j \in DOMAIN c : i < j => c[i] < c[j]}

CatalogPaths(c) == [i \in DOMAIN c |-> [id |-> i, milestones |-> c[i]]]

\* Completed-milestone counts a record may hold for a path of m milestones
\* (a subset of the path's milestones).
CompletedChoices(m) == {c \in {0, 2, m - 1, m} : 0 <= c /\ c <= m}

\* The progress records that may occur with the catalog paths; a path may
\* occur in several records of a list.
ProgressRecords(paths) ==
    UNION {{[career_path_id |-> paths[i].id, completed_milestones |-> c] :
                c \in CompletedChoices(paths[i].milestones)} : i \in DOMAIN paths}
    \cup {[career_path_id |-> UnknownPathId, completed_milestones |-> 2]}

ProgressLists(paths) ==
    UNION {[1..n -> ProgressRecords(paths)] : n \in 0..MaxProgress}

\* The responses GET /api/user/{userId}/achievements may resolve with: one
\* without a body (data is undefined), or a body whose achievements list is
\* missing or empty (both make "data.achievements || []" the empty list) or
\* holds an achievement.
AchievementResponses ==
    {[data |-> FALSE, achievements |-> <<>>],
     [data |-> TRUE, achievements |-> <<>>],
     [data |-> TRUE, achievements |-> <<"first_step">>]}

\* ------------------------------------------------------------------------
\* Dashboard: initial state and fetchDashboardData
\* ------------------------------------------------------------------------

DashRequests == {"career-paths", "progress", "achievements"}

DashInit ==
    /\ careerPaths = <<>>
    /\ userProgress = <<>>
    /\ achievements = <<>>
    /\ dashLoading = TRUE
    /\ dashReq = [r \in DashRequests |-> "pending"]
    /\ dashCaught = "nothing"

\* One of the three GETs resolved.
dashRequestResolved(r) ==
    /\ mounted = "Dashboard"
    /\ issued' = 0
    /\ dashReq[r] = "pending"
    /\ dashReq' = [dashReq EXCEPT ![r] = "resolved"]
    /\ UNCHANGED <<careerPaths, userProgress, achievements, dashLoading, dashCaught>>
    /\ UNCHANGED notDash

\* One of the three GETs rejected.
dashRequestRejected(r) ==
    /\ mounted = "Dashboard"
    /\ issued' = 0
    /\ dashReq[r] = "pending"
    /\ dashReq' = [dashReq EXCEPT ![r] = "rejected"]
    /\ UNCHANGED <<careerPaths, userProgress, achievements, dashLoading, dashCaught>>
    /\ UNCHANGED notDash

\* Mutation of fetchDashboardDataResolved: the three GETs are joined with
\* Promise.allSettled and the data of those that resolved is written.
fetchDashboardDataAllSettled ==
    /\ mounted = "Dashboard"
    /\ issued' = 0
    /\ dashLoading
    /\ \A r \in DashRequests : dashReq[r] # "pending"
    /\ \E c \in Catalogs : \E progress \in ProgressLists(CatalogPaths(c)) :
          \E achievementsRes \in AchievementResponses :
             /\ careerPaths' = IF dashReq["career-paths"] = "resolved"
                               THEN CatalogPaths(c) ELSE careerPaths
             /\ userProgress' = IF dashReq["progress"] = "resolved"
                                THEN progress ELSE userProgress
             /\ achievements' = IF dashReq["achievements"] = "resolved"
                                THEN achievementsRes.achievements ELSE achievements
    /\ dashLoading' = FALSE
    /\ UNCHANGED <<dashReq, dashCaught>>
    /\ UNCHANGED notDash

\* fetchDashboardData after its await, Promise.all fulfilled: the three
\* setters run in order; reading .achievements of a missing body throws after
\* the first two have run, and the catch and finally follow.
fetchDashboardDataResolved ==
    /\ mounted = "Dashboard"
    /\ issued' = 0
    /\ dashLoading
    /\ \A r \in DashRequests : dashReq[r] = "resolved"
    /\ \E c \in Catalogs : \E progress \in ProgressLists(CatalogPaths(c)) :
          \E achievementsRes \in AchievementResponses :
             /\ careerPaths' = CatalogPaths(c)
             /\ userProgress' = progress
             /\ achievements' = IF achievementsRes.data
                                THEN achievementsRes.achievements
                                ELSE achievements
             /\ dashCaught' = IF achievementsRes.data THEN dashCaught ELSE "TypeError"
    /\ dashLoading' = FALSE
    /\ UNCHANGED dashReq
    /\ UNCHANGED notDash

\* fetchDashboardData after its await, Promise.all rejected (as soon as one of
\* the GETs rejected): catch and finally.
fetchDashboardDataRejected ==
    /\ mounted = "Dashboard"
    /\ issued' = 0
    /\ dashLoading
    /\ \E r \in DashRequests : dashReq[r] = "rejected"
    /\ dashLoading' = FALSE
    /\ dashCaught' = "rejection"
    /\ UNCHANGED <<careerPaths, userProgress, achievements, dashReq>>
    /\ UNCHANGED notDash

\* ------------------------------------------------------------------------
\* Dashboard and Profile: progress aggregation
\* ------------------------------------------------------------------------

\* progress.find(p => p.career_path_id === pathId), searched from record i on:
\* the index of the first such record, 0 when there is none.
RECURSIVE FindProgress(_, _, _)
FindProgress(progress, pathId, i) ==
    IF i > Len(progress) THEN 0
    ELSE IF progress[i].career_path_id = pathId THEN i
    ELSE FindProgress(progress, pathId, i + 1)

\* paths.find(p => p.id === pathId), searched from path i on: the index of the
\* first such path, 0 when there is none.
RECURSIVE FindPath(_, _, _)
FindPath(paths, pathId, i) ==
    IF i > Len(paths) THEN 0
    ELSE IF paths[i].id = pathId THEN i
    ELSE FindPath(paths, pathId, i + 1)

\* Dashboard getPathProgress(pathId).
getPathProgress(pathId) ==
    LET pi == FindProgress(userProgress, pathId, 1)
        ci == FindPath(careerPaths, pathId, 1)
    IN  IF pi = 0 THEN Num(0)
        ELSE IF ci = 0 THEN Num(0)
        ELSE RoundPercent(userProgress[pi].completed_milestones,
                          careerPaths[ci].milestones)

\* Mutation of IsCompleted: a record is complete when its percentage is 100.
IsCompletedByPercent(p, paths) ==
    LET ci == FindPath(paths, p.career_path_id, 1)
    IN  ci # 0 /\ RoundPercent(p.completed_milestones, paths[ci].milestones) = Num(100)

\* The predicate of getCompletedCount and of the Profile's filter: the path
\* of the record is in the catalog and the two lengths are equal.
IsCompleted(p, paths) ==
    LET ci == FindPath(paths, p.career_path_id, 1)
    IN  ci # 0 /\ p.completed_milestones = paths[ci].milestones

\* progress.reduce((sum, p) => completed(p) ? sum + 1 : sum, 0) from record i on.
RECURSIVE CountCompletedFrom(_, _, _)
CountCompletedFrom(progress, paths, i) ==
    IF i > Len(progress) THEN 0
    ELSE (IF IsCompleted(progress[i], paths) THEN 1 ELSE 0)
         + CountCompletedFrom(progress, paths, i + 1)

\* Dashboard getCompletedCount().
getCompletedCount == CountCompletedFrom(userProgress, careerPaths, 1)

\* Profile completedPaths counting each completed path once.
completedPathsDistinct(progress, paths) ==
    Cardinality({progress[i].career_path_id :
                    i \in {j \in DOMAIN progress : IsCompleted(progress[j], paths)}})

\* Profile fetchStats: completedPaths = progress.filter(completed).length.
completedPaths(progress, paths) ==
    Cardinality({i \in DOMAIN progress : IsCompleted(progress[i], paths)})

\* progress.reduce((sum, p) => sum + p.completed_milestones.length, 0)
RECURSIVE SumCompletedFrom(_, _)
SumCompletedFrom(progress, i) ==
    IF i > Len(progress) THEN 0
    ELSE progress[i].completed_milestones + SumCompletedFrom(progress, i + 1)

\* Dashboard getTotalMilestonesCompleted().
getTotalMilestonesCompleted == SumCompletedFrom(userProgress, 1)

\* userProgress.reduce((sum, p) => sum + getPathProgress(p.career_path_id), 0)
\* over the first i records.
RECURSIVE SumPathProgress(_)
SumPathProgress(i) ==
    IF i = 0 THEN Num(0)
    ELSE Plus(SumPathProgress(i - 1), getPathProgress(userProgress[i].career_path_id))

\* Mutation of AverageDenominator: the mean is taken over the catalog.
AverageDenominatorCatalog == Len(careerPaths)

\* The denominator of the average progress expression.
AverageDenominator == Len(userProgress)

\* Dashboard, the average progress expression.
averageProgress ==
    IF Len(userProgress) > 0
    THEN RoundQuotient(SumPathProgress(Len(userProgress)), AverageDenominator)
    ELSE Num(0)

DashNext ==
    \/ \E r \in DashRequests : dashRequestResolved(r)
    \/ \E r \in DashRequests : dashRequestRejected(r)
    \/ fetchDashboardDataResolved
    \/ fetchDashboardDataRejected

\* ------------------------------------------------------------------------
\* Profile: initial state and fetchStats
\* ------------------------------------------------------------------------

ProfRequests == {"progress", "achievements", "career-paths"}

ProfInit ==
    /\ stats = [totalPaths |-> 0, completedPaths |-> 0, totalMilestones |-> 0,
                achievementsCount |-> 0, certificatesCount |-> 0]
    /\ profLoading = TRUE
    /\ profReq = [r \in ProfRequests |-> "pending"]
    /\ statsMilestones = 0

\* One of the three GETs resolved.
profRequestResolved(r) ==
    /\ mounted = "Profile"
    /\ issued' = 0
    /\ profReq[r] = "pending"
    /\ profReq' = [profReq EXCEPT ![r] = "resolved"]
    /\ UNCHANGED <<stats, profLoading, statsMilestones>>
    /\ UNCHANGED notProfile

\* One of the three GETs rejected.
profRequestRejected(r) ==
    /\ mounted = "Profile"
    /\ issued' = 0
    /\ profReq[r] = "pending"
    /\ profReq' = [profReq EXCEPT ![r] = "rejected"]
    /\ UNCHANGED <<stats, profLoading, statsMilestones>>
    /\ UNCHANGED notProfile

\* Mutation of NewStats: one certificate for every path started.
NewStatsCertificatePerRecord(progress, achievementList, paths) ==
    [totalPaths |-> Len(progress),
     completedPaths |-> completedPaths(progress, paths),
     totalMilestones |-> SumCompletedFrom(progress, 1),
     achievementsCount |-> Len(achievementList),
     certificatesCount |-> Len(progress)]

\* path.milestones.length of the path found for each record that the filter
\* of fetchStats keeps, summed from record i on.
RECURSIVE PathMilestonesFrom(_, _, _)
PathMilestonesFrom(progress, paths, i) ==
    IF i > Len(progress) THEN 0
    ELSE (IF IsCompleted(progress[i], paths)
          THEN paths[FindPath(paths, progress[i].career_path_id, 1)].milestones
          ELSE 0)
         + PathMilestonesFrom(progress, paths, i + 1)

\* The object fetchStats hands to setStats.
NewStats(progress, achievementList, paths) ==
    [totalPaths |-> Len(progress),
     completedPaths |-> completedPaths(progress, paths),
     totalMilestones |-> SumCompletedFrom(progress, 1),
     achievementsCount |-> Len(achievementList),
     certificatesCount |-> completedPaths(progress, paths)]

\* fetchStats after its await, Promise.all fulfilled: the counters are
\* computed and set at once; reading .achievements of a missing body throws
\* before setStats, and the catch and finally follow.
fetchStatsResolved ==
    /\ mounted = "Profile"
    /\ issued' = 0
    /\ profLoading
    /\ \A r \in ProfRequests : profReq[r] = "resolved"
    /\ \E c \in Catalogs : \E progress \in ProgressLists(CatalogPaths(c)) :
          \E achievementsRes \in AchievementResponses :
             /\ stats' = IF achievementsRes.data
                         THEN NewStats(progress, achievementsRes.achievements,
                                       CatalogPaths(c))
                         ELSE stats
             /\ statsMilestones' = IF achievementsRes.data
                                   THEN PathMilestonesFrom(progress, CatalogPaths(c), 1)
                                   ELSE statsMilestones
    /\ profLoading' = FALSE
    /\ UNCHANGED profReq
    /\ UNCHANGED notProfile

\* fetchStats after its await, Promise.all rejected (as soon as one of the
\* GETs rejected): catch and finally.
fetchStatsRejected ==
    /\ mounted = "Profile"
    /\ issued' = 0
    /\ profLoading
    /\ \E r \in ProfRequests : profReq[r] = "rejected"
    /\ profLoading' = FALSE
    /\ UNCHANGED <<stats, profReq, statsMilestones>>
    /\ UNCHANGED notProfile

ProfNext ==
    \/ \E r \in ProfRequests : profRequestResolved(r)
    \/ \E r \in ProfRequests : profRequestRejected(r)
    \/ fetchStatsResolved
    \/ fetchStatsRejected

\* ------------------------------------------------------------------------
\* Certificates: fetchCertificates, handleDownload, handleShare
\* ------------------------------------------------------------------------

\* The responses GET /api/user/{userId}/certificates may resolve with: one
\* without a body ("response.data || []" is the empty list) or a list.
CertificateResponses ==
    {[data |-> FALSE, list |-> <<>>]}
    \cup {[data |-> TRUE, list |-> [i \in 1..n |-> [id |-> i]]] :
              n \in 0..MaxCertificates}

DownloadAlert ==
    "Certificate download would start here. In production, this would generate a PDF."

ShareAlert == "Certificate link copied to clipboard!"

CertInit ==
    /\ certificates = <<>>
    /\ certLoading = TRUE
    /\ certReq = "pending"
    /\ downloads = 0
    /\ certAlert = ""

\* fetchCertificates, try branch and finally: the GET resolved with res.
fetchCertificatesResolved(res) ==
    /\ mounted = "Certificates"
    /\ issued' = 0
    /\ certReq = "pending"
    /\ certReq' = "resolved"
    /\ certificates' = IF res.data THEN res.list ELSE <<>>
    /\ certLoading' = FALSE
    /\ UNCHANGED <<downloads, certAlert>>
    /\ UNCHANGED notCertificates

\* Mutation of fetchCertificatesRejected: the flag is cleared in the try
\* branch only.
fetchCertificatesRejectedKeepsLoading ==
    /\ mounted = "Certificates"
    /\ issued' = 0
    /\ certReq = "pending"
    /\ certReq' = "rejected"
    /\ certificates' = <<>>
    /\ UNCHANGED <<certLoading, downloads, certAlert>>
    /\ UNCHANGED notCertificates

\* fetchCertificates, catch branch and finally: the GET rejected.
fetchCertificatesRejected ==
    /\ mounted = "Certificates"
    /\ issued' = 0
    /\ certReq = "pending"
    /\ certReq' = "rejected"
    /\ certificates' = <<>>
    /\ certLoading' = FALSE
    /\ UNCHANGED <<downloads, certAlert>>
    /\ UNCHANGED notCertificates

\* The Download button of certificate i of the list: handleDownload up to
\* its await.
handleDownload(i) ==
    /\ mounted = "Certificates"
    /\ issued' = 1
    /\ ~certLoading
    /\ i \in DOMAIN certificates
    /\ downloads < MaxDownloads
    /\ downloads' = downloads + 1
    /\ UNCHANGED <<certificates, certLoading, certReq, certAlert>>
    /\ UNCHANGED notCertificates

\* handleDownload after its await, the GET resolved.
handleDownloadResolved ==
    /\ mounted = "Certificates"
    /\ issued' = 0
    /\ downloads > 0
    /\ downloads' = downloads - 1
    /\ certAlert' = DownloadAlert
    /\ UNCHANGED <<certificates, certLoading, certReq>>
    /\ UNCHANGED notCertificates

\* handleDownload after its await, the GET rejected: the catch logs.
handleDownloadRejected ==
    /\ mounted = "Certificates"
    /\ issued' = 0
    /\ downloads > 0
    /\ downloads' = downloads - 1
    /\ UNCHANGED <<certificates, certLoading, certReq, certAlert>>
    /\ UNCHANGED notCertificates

\* The Share button of certificate i of the list.
handleShare(i) ==
    /\ mounted = "Certificates"
    /\ issued' = 0
    /\ ~certLoading
    /\ i \in DOMAIN certificates
    /\ certAlert' = ShareAlert
    /\ UNCHANGED <<certificates, certLoading, certReq, downloads>>
    /\ UNCHANGED notCertificates

CertNext ==
    \/ \E res \in CertificateResponses : fetchCertificatesResolved(res)
    \/ fetchCertificatesRejected
    \/ \E i \in 1..MaxCertificates : handleDownload(i)
    \/ handleDownloadResolved
    \/ handleDownloadRejected
    \/ \E i \in 1..MaxCertificates : handleShare(i)

\* ------------------------------------------------------------------------
\* Login and Signup: handleSubmit
\* ------------------------------------------------------------------------

\* The call of login() or signup(): not made yet, pending, or settled; a
\* rejection carries err.response?.data?.detail, which is absent (no response
\* or no detail field) or a string.
Call(state, present, detail) ==
    [state |-> state, present |-> present, detail |-> detail]

Idle == Call("idle", FALSE, "")
Pending == Call("pending", FALSE, "")
Resolved == Call("resolved", FALSE, "")

Rejections ==
    {Call("rejected", FALSE, ""),
     Call("rejected", TRUE, ""),
     Call("rejected", TRUE, "Invalid email or password")}

\* err.response?.data?.detail || fallback: an absent detail and the empty
\* string are falsy.
DetailOr(err, fallback) ==
    IF err.present /\ err.detail # "" THEN err.detail ELSE fallback

LoginFallback == "Login failed. Please check your credentials."

SignupFallback == "Signup failed. Please try again."

LoginInit ==
    /\ loginError = ""
    /\ loginLoading = FALSE
    /\ loginReq = Idle
    /\ loginNavigated = ""

\* Login handleSubmit that does not clear the error before the call.
loginHandleSubmitKeepsError ==
    /\ mounted = "Login"
    /\ issued' = 1
    /\ ~loginLoading
    /\ loginNavigated = ""
    /\ loginLoading' = TRUE
    /\ loginReq' = Pending
    /\ UNCHANGED <<loginError, loginNavigated>>
    /\ UNCHANGED notLogin

\* Login handleSubmit up to its await; the submit button is disabled while
\* loading, and the component is gone once it has navigated.
loginHandleSubmit ==
    /\ mounted = "Login"
    /\ issued' = 1
    /\ ~loginLoading
    /\ loginNavigated = ""
    /\ loginError' = ""
    /\ loginLoading' = TRUE
    /\ loginReq' = Pending
    /\ UNCHANGED loginNavigated
    /\ UNCHANGED notLogin

\* Login handleSubmit after its await, login() resolved: navigate, finally.
loginResolved ==
    /\ mounted = "Login"
    /\ issued' = 0
    /\ loginReq = Pending
    /\ loginReq' = Resolved
    /\ loginNavigated' = "/"
    /\ loginLoading' = FALSE
    /\ UNCHANGED loginError
    /\ UNCHANGED notLogin

\* Mutation of loginRejected: the catch always shows the fallback.
loginRejectedFallbackOnly(err) ==
    /\ mounted = "Login"
    /\ issued' = 0
    /\ loginReq = Pending
    /\ loginReq' = err
    /\ loginError' = LoginFallback
    /\ loginLoading' = FALSE
    /\ UNCHANGED loginNavigated
    /\ UNCHANGED notLogin

\* Login handleSubmit after its await, login() rejected with err: catch,
\* finally.
loginRejected(err) ==
    /\ mounted = "Login"
    /\ issued' = 0
    /\ loginReq = Pending
    /\ loginReq' = err
    /\ loginError' = DetailOr(err, LoginFallback)
    /\ loginLoading' = FALSE
    /\ UNCHANGED loginNavigated
    /\ UNCHANGED notLogin

LoginNext ==
    \/ loginHandleSubmit
    \/ loginResolved
    \/ \E err \in Rejections : loginRejected(err)

\* What the user may type into a password field.
Passwords == {"", "12345", "123456", "abcdef"}

PasswordMismatch == "Passwords do not match"

PasswordTooShort == "Password must be at least 6 characters"

SignupInit ==
    /\ password = ""
    /\ confirmPassword = ""
    /\ signupError = ""
    /\ signupLoading = FALSE
    /\ signupReq = Idle
    /\ signupNavigated = ""

\* onChange of the password field.
setPassword(v) ==
    /\ mounted = "Signup"
    /\ issued' = 0
    /\ signupNavigated = ""
    /\ password' = v
    /\ UNCHANGED <<confirmPassword, signupError, signupLoading, signupReq,
                   signupNavigated>>
    /\ UNCHANGED notSignup

\* onChange of the confirm-password field.
setConfirmPassword(v) ==
    /\ mounted = "Signup"
    /\ issued' = 0
    /\ signupNavigated = ""
    /\ confirmPassword' = v
    /\ UNCHANGED <<password, signupError, signupLoading, signupReq,
                   signupNavigated>>
    /\ UNCHANGED notSignup

\* Signup handleSubmit with the two validations in the other order.
signupHandleSubmitLengthFirst ==
    /\ mounted = "Signup"
    /\ issued' = IF password # confirmPassword \/ Len(password) < 6 THEN 0 ELSE 1
    /\ ~signupLoading
    /\ signupNavigated = ""
    /\ password # ""
    /\ confirmPassword # ""
    /\ IF Len(password) < 6
       THEN /\ signupError' = PasswordTooShort
            /\ UNCHANGED <<signupLoading, signupReq>>
       ELSE IF password # confirmPassword
       THEN /\ signupError' = PasswordMismatch
            /\ UNCHANGED <<signupLoading, signupReq>>
       ELSE /\ signupError' = ""
            /\ signupLoading' = TRUE
            /\ signupReq' = Pending
    /\ UNCHANGED <<password, confirmPassword, signupNavigated>>
    /\ UNCHANGED notSignup

\* Signup handleSubmit up to its return or its await; the submit button is
\* disabled while loading, the form does not submit an empty required field,
\* and the component is gone once it has navigated.
signupHandleSubmit ==
    /\ mounted = "Signup"
    /\ issued' = IF password # confirmPassword \/ Len(password) < 6 THEN 0 ELSE 1
    /\ ~signupLoading
    /\ signupNavigated = ""
    /\ password # ""
    /\ confirmPassword # ""
    /\ IF password # confirmPassword
       THEN /\ signupError' = PasswordMismatch
            /\ UNCHANGED <<signupLoading, signupReq>>
       ELSE IF Len(password) < 6
       THEN /\ signupError' = PasswordTooShort
            /\ UNCHANGED <<signupLoading, signupReq>>
       ELSE /\ signupError' = ""
            /\ signupLoading' = TRUE
            /\ signupReq' = Pending
    /\ UNCHANGED <<password, confirmPassword, signupNavigated>>
    /\ UNCHANGED notSignup

\* Signup handleSubmit after its await, signup() resolved: navigate, finally.
signupResolved ==
    /\ mounted = "Signup"
    /\ issued' = 0
    /\ signupReq = Pending
    /\ signupReq' = Resolved
    /\ signupNavigated' = "/quiz"
    /\ signupLoading' = FALSE
    /\ UNCHANGED <<password, confirmPassword, signupError>>
    /\ UNCHANGED notSignup

\* Signup handleSubmit after its await, signup() rejected with err: catch,
\* finally.
signupRejected(err) ==
    /\ mounted = "Signup"
    /\ issued' = 0
    /\ signupReq = Pending
    /\ signupReq' = err
    /\ signupError' = DetailOr(err, SignupFallback)
    /\ signupLoading' = FALSE
    /\ UNCHANGED <<password, confirmPassword, signupNavigated>>
    /\ UNCHANGED notSignup

SignupNext ==
    \/ \E v \in Passwords : setPassword(v)
    \/ \E v \in Passwords : setConfirmPassword(v)
    \/ signupHandleSubmit
    \/ signupResolved
    \/ \E err \in Rejections : signupRejected(err)

\* ------------------------------------------------------------------------
\* AchievementBadge and AchievementPopup: the achievement lookup
\* ------------------------------------------------------------------------

\* The glyphs of the table, named by their code points.
Target == "U+1F3AF"
Rocket == "U+1F680"
Crown == "U+1F451"
Bolt == "U+26A1"
GlowingStar == "U+1F31F"

\* A property that a looked-up value does not have reads as undefined.
Undefined == "undefined"

\* Mutation of ACHIEVEMENT_DATA: multi_path carries the name of path_master.
ACHIEVEMENT_DATA_DuplicateName ==
    [first_step |-> [name |-> "First Step",
                     description |-> "Complete your first milestone",
                     icon |-> Target, color |-> "#10B981"],
     halfway_hero |-> [name |-> "Halfway Hero",
                       description |-> "Complete 50% of a career path",
                       icon |-> Rocket, color |-> "#3B82F6"],
     path_master |-> [name |-> "Path Master",
                      description |-> "Complete an entire career path",
                      icon |-> Crown, color |-> "#F59E0B"],
     speed_demon |-> [name |-> "Speed Demon",
                      description |-> "Complete a path in record time",
                      icon |-> Bolt, color |-> "#EF4444"],
     multi_path |-> [name |-> "Path Master",
                     description |-> "Complete 3 different career paths",
                     icon |-> GlowingStar, color |-> "#8B5CF6"]]

\* The own properties of ACHIEVEMENT_DATA.
ACHIEVEMENT_DATA ==
    [first_step |-> [name |-> "First Step",
                     description |-> "Complete your first milestone",
                     icon |-> Target, color |-> "#10B981"],
     halfway_hero |-> [name |-> "Halfway Hero",
                       description |-> "Complete 50% of a career path",
                       icon |-> Rocket, color |-> "#3B82F6"],
     path_master |-> [name |-> "Path Master",
                      description |-> "Complete an entire career path",
                      icon |-> Crown, color |-> "#F59E0B"],
     speed_demon |-> [name |-> "Speed Demon",
                      description |-> "Complete a path in record time",
                      icon |-> Bolt, color |-> "#EF4444"],
     multi_path |-> [name |-> "Multi-Path Master",
                     description |-> "Complete 3 different career paths",
                     icon |-> GlowingStar, color |-> "#8B5CF6"]]

\* Properties every object literal inherits from Object.prototype, with the
\* name property of the function each of them holds.
ObjectPrototype ==
    [toString |-> "toString", constructor |-> "Object",
     hasOwnProperty |-> "hasOwnProperty"]

\* The ids a parent may pass: the five of the table, one that is no property
\* at all, and names of inherited properties.
AchievementIdProps ==
    DOMAIN ACHIEVEMENT_DATA \cup {"night_owl"} \cup DOMAIN ObjectPrototype

\* ACHIEVEMENT_DATA[id]: an own entry, an inherited function (truthy; its
\* name is the function's name, it has no description, icon or color), or
\* undefined.
Lookup(id) ==
    IF id \in DOMAIN ACHIEVEMENT_DATA
    THEN [truthy |-> TRUE] @@ ACHIEVEMENT_DATA[id]
    ELSE IF id \in DOMAIN ObjectPrototype
    THEN [truthy |-> TRUE, name |-> ObjectPrototype[id],
          description |-> Undefined, icon |-> Undefined, color |-> Undefined]
    ELSE [truthy |-> FALSE, name |-> Undefined, description |-> Undefined,
          icon |-> Undefined, color |-> Undefined]

\* What a render returns: nothing yet, null, or an element.
Output(kind, id, icon, name, description, title) ==
    [kind |-> kind, id |-> id, icon |-> icon, name |-> name,
     description |-> description, title |-> title]

NotRendered == Output("none", "", "", "", "", "")

ReturnNull(id) == Output("null", id, "", "", "", "")

AchievementInit == rendered = NotRendered

\* AchievementBadge({achievementId}) with the default size and tooltip.
AchievementBadge(achievementId) ==
    /\ mounted = "AchievementBadge"
    /\ issued' = 0
    /\ LET achievement == Lookup(achievementId)
       IN  rendered' =
             IF ~achievement.truthy THEN ReturnNull(achievementId)
             ELSE Output("element", achievementId, achievement.icon,
                         achievement.name, "",
                         achievement.name \o ": " \o achievement.description)
    /\ UNCHANGED notAchievement

\* AchievementPopup({achievement}).
AchievementPopup(achievement) ==
    /\ mounted = "AchievementPopup"
    /\ issued' = 0
    /\ LET achievementData == Lookup(achievement)
       IN  rendered' =
             IF ~achievementData.truthy THEN ReturnNull(achievement)
             ELSE Output("element", achievement, achievementData.icon,
                         achievementData.name, achievementData.description,
                         "Achievement Unlocked!")
    /\ UNCHANGED notAchievement

AchievementNext ==
    \/ \E id \in AchievementIdProps : AchievementBadge(id)
    \/ \E id \in AchievementIdProps : AchievementPopup(id)

\* ------------------------------------------------------------------------
\* Specifications
\* ------------------------------------------------------------------------

\* The user objects useAuth() may hold after login: one who has not taken
\* the quiz and has no recommended paths, and one who has both.
Users ==
    {[quiz_completed |-> FALSE, recommended_paths |-> <<>>],
     [quiz_completed |-> TRUE, recommended_paths |-> <<1>>]}

\* The components a route mounts.
Components ==
    {"Quiz", "Dashboard", "Profile", "Certificates", "Login", "Signup",
     "AchievementBadge", "AchievementPopup"}

\* The state after the route has mounted component c: every component's
\* hooks hold their initial values.
\* The requests the useEffect of component c sends when it is mounted.
LoadRequests(c) ==
    CASE c = "Dashboard" -> Cardinality(DashRequests)
      [] c = "Profile" -> Cardinality(ProfRequests)
      [] c \in {"Quiz", "Certificates"} -> 1
      [] OTHER -> 0

InitOn(c) ==
    /\ QuizInit /\ DashInit /\ ProfInit /\ CertInit /\ LoginInit /\ SignupInit
    /\ AchievementInit
    /\ user \in Users
    /\ mounted = c
    /\ issued = LoadRequests(c)

Init == \E c \in Components : InitOn(c)

\* Every handler runs in its mounted component only.
Next ==
    \/ QuizNext \/ DashNext \/ ProfNext \/ CertNext \/ LoginNext \/ SignupNext
    \/ AchievementNext

\* The Quiz screen alone.
SpecQuiz == InitOn("Quiz") /\ [][QuizNext]_vars

\* The Dashboard screen alone.
SpecDash == InitOn("Dashboard") /\ [][DashNext]_vars

\* The Profile screen alone.
SpecProfile == InitOn("Profile") /\ [][ProfNext]_vars

\* The application: whichever component the route mounted.
SpecApp == Init /\ [][Next]_vars

\* The join of fetchDashboardData (Promise.all) has settled and its
\* continuation has not run yet: fetchDashboardDataResolved or
\* fetchDashboardDataRejected is enabled exactly in these states, and either
\* step leaves them.
DashContinuationDue ==
    /\ mounted = "Dashboard"
    /\ dashLoading
    /\ \/ \A r \in DashRequests : dashReq[r] = "resolved"
       \/ \E r \in DashRequests : dashReq[r] = "rejected"

\* The same for fetchStats.
ProfContinuationDue ==
    /\ mounted = "Profile"
    /\ profLoading
    /\ \/ \A r \in ProfRequests : profReq[r] = "resolved"
       \/ \E r \in ProfRequests : profReq[r] = "rejected"

\* Every load request sent on mount settles, and the continuation that
\* awaits it then runs (the event loop runs the continuation of a settled
\* promise).  A continuation disables itself, so weak fairness of it is
\* that it is not due forever.
LoadFairness ==
    /\ WF_vars((\E qs \in QuestionLists : fetchQuestionsResolved(qs))
                  \/ fetchQuestionsRejected)
    /\ \A r \in DashRequests :
          WF_vars(dashRequestResolved(r) \/ dashRequestRejected(r))
    /\ []<>(~DashContinuationDue)
    /\ \A r \in ProfRequests :
          WF_vars(profRequestResolved(r) \/ profRequestRejected(r))
    /\ []<>(~ProfContinuationDue)
    /\ WF_vars((\E res \in CertificateResponses : fetchCertificatesResolved(res))
                  \/ fetchCertificatesRejected)

\* The application when every load request settles.
SpecAppFair == Init /\ [][Next]_vars /\ LoadFairness

\* ------------------------------------------------------------------------
\* Quiz: properties
\* ------------------------------------------------------------------------

\* Some slot of the full question list holds no answer.
AnySlotEmpty == \E i \in 0..(Len(questions) - 1) : ~Truthy(At(answers, i))

\* The render branch the component is in.
Phase ==
    IF loading THEN "Loading"
    ELSE IF Truthy(results) THEN "Results"
    ELSE IF submitting THEN "Submitting"
    ELSE "Answering"

\* This step is handleSubmit issuing POST /api/quiz/submit.
IssuesSubmit == submitReq = NoRequest /\ submitReq' # NoRequest

\* This step is the handling of a failed POST /api/quiz/submit.
FailedSubmit == submitReq # NoRequest /\ submitReq' = NoRequest /\ ~Truthy(results')

\* C1: every POST /api/quiz/submit carries exactly one filled entry per fetched
\* question: as many entries as questions, no empty slot, and entry i holds the
\* id of question i.
C1_PayloadComplete ==
    submitReq # NoRequest =>
        /\ Len(submitReq.answers) = Len(questions)
        /\ \A i \in 0..(Len(questions) - 1) :
              /\ Truthy(At(submitReq.answers, i))
              /\ At(submitReq.answers, i).question_id = At(questions, i).id

\* A POST is in flight for a list of several questions whose first id is not
\* the id 1 (ids and positions differ).
C1_Witness ==
    /\ submitReq # NoRequest
    /\ Len(questions) >= 2
    /\ At(questions, 0).id # 1

\* C2 as stated: on the last question Submit is disabled iff some slot of the
\* question list is empty, also while a submission is in flight.
C2_Original ==
    (WizardShown /\ ~NextShown) => (SubmitDisabled <=> AnySlotEmpty)

\* C2 amended: on the last question Submit is disabled iff some slot of the
\* question list is empty or a submission is in flight.
C2_SubmitDisabled ==
    (WizardShown /\ ~NextShown) =>
        (SubmitDisabled <=> (AnySlotEmpty \/ submitReq # NoRequest))

\* The last question is shown, every slot is filled and Submit is disabled
\* because the POST is in flight.
C2_Witness ==
    /\ WizardShown
    /\ ~NextShown
    /\ Len(questions) >= 2
    /\ ~AnySlotEmpty
    /\ submitReq # NoRequest
    /\ SubmitDisabled

\* C3: on a question that is not the last, Next is disabled iff the slot of the
\* current question stores no answer, and the index only advances past a
\* question whose slot stores an answer.
C3_NextDisabled ==
    /\ [](WizardShown /\ NextShown =>
            (NextDisabled <=> ~(/\ currentQuestion < Len(answers)
                                /\ answers[currentQuestion + 1] # undefined)))
    /\ [][currentQuestion' > currentQuestion =>
            /\ currentQuestion < Len(answers)
            /\ answers[currentQuestion + 1] # undefined]_vars

\* The wizard advanced to a question that is not the last and has no answer:
\* Next is shown and disabled.
C3_Witness ==
    /\ WizardShown
    /\ currentQuestion >= 1
    /\ NextShown
    /\ NextDisabled

\* C4: the payload entry of every question is the option selected last for it,
\* and selecting an option for an answered question replaces that slot only:
\* the length and every other slot stay as they were.
C4_LastWriteWins ==
    [][/\ IssuesSubmit =>
            \A i \in 0..(Len(questions) - 1) :
                /\ i \in DOMAIN lastSelected
                /\ Truthy(At(submitReq'.answers, i))
                /\ At(submitReq'.answers, i).selected_option = lastSelected[i]
       /\ (answers' # answers /\ Truthy(At(answers, currentQuestion))) =>
            /\ Len(answers') = Len(answers)
            /\ \A i \in 0..(Len(answers) - 1) :
                  i # currentQuestion => At(answers', i) = At(answers, i)
            /\ At(answers', currentQuestion).selected_option
                  = lastSelected'[currentQuestion]]_vars

\* A POST is in flight for several questions after a selection replaced a
\* different stored answer, and its payload holds the options selected last.
C4_Witness ==
    /\ submitReq # NoRequest
    /\ Len(questions) >= 2
    /\ replaced
    /\ \A i \in 0..(Len(questions) - 1) :
          At(submitReq.answers, i).selected_option = lastSelected[i]

\* C5 as stated: when the POST fails, results stay null, submitting is cleared,
\* the failure message is shown, and answers and index are those of the moment
\* the submission was started.
C5_Original ==
    [][FailedSubmit =>
            /\ results' = null
            /\ ~submitting'
            /\ alertMsg' = "Failed to submit quiz. Please try again."
            /\ answers' = atSubmit.answers
            /\ currentQuestion' = atSubmit.currentQuestion]_vars

\* C5 amended: when the POST fails, results stay null, submitting is cleared so
\* that the Submit expression is enabled again, the failure message is shown,
\* and the handling of the failure itself leaves answers and index as they
\* were just before it (the user may have changed them during the flight).
C5_FailureKeepsState ==
    [][FailedSubmit =>
            /\ results' = null
            /\ ~submitting'
            /\ ~SubmitDisabled'
            /\ alertMsg' = "Failed to submit quiz. Please try again."
            /\ answers' = answers
            /\ currentQuestion' = currentQuestion]_vars

\* A failed submission has been handled and the wizard is shown again with the
\* flag cleared, all answers kept, on a question before the last.
C5_Witness ==
    /\ WizardShown
    /\ ~submitting
    /\ submitReq = NoRequest
    /\ alertMsg = "Failed to submit quiz. Please try again."
    /\ Len(answers) = Len(questions)
    /\ NextShown

\* C6: the phase moves only Loading -> Answering -> Submitting -> Results and
\* Submitting -> Answering on a failed submission; Results is entered only by
\* the answer to the POST in flight and is never left.
C6_PhaseOrder ==
    [][\/ Phase' = Phase
       \/ Phase = "Loading" /\ Phase' = "Answering"
       \/ Phase = "Answering" /\ Phase' = "Submitting" /\ IssuesSubmit
       \/ /\ Phase = "Submitting" /\ Phase' = "Results"
          /\ submitReq # NoRequest /\ submitReq' = NoRequest
          /\ alertMsg' = alertMsg
       \/ Phase = "Submitting" /\ Phase' = "Answering" /\ FailedSubmit]_vars

\* The wizard is in Results after an earlier submission had failed.
C6_Witness ==
    /\ Phase = "Results"
    /\ alertMsg = "Failed to submit quiz. Please try again."

\* C7: with a non-empty question list the index lies in 0..length-1; it moves
\* by one step at a time, never below 0 (Previous is disabled there), Next
\* does nothing at the last index, and selecting an answer leaves it alone.
C7_IndexInRange ==
    /\ [](questions # <<>> =>
            /\ currentQuestion \in 0..(Len(questions) - 1)
            /\ (currentQuestion = 0 => PreviousDisabled)
            /\ (currentQuestion = Len(questions) - 1 =>
                    NextIndex(currentQuestion) = currentQuestion))
    /\ [][/\ currentQuestion' # currentQuestion =>
                \/ currentQuestion' = currentQuestion + 1
                \/ currentQuestion' = currentQuestion - 1 /\ ~PreviousDisabled
          /\ answers' # answers => currentQuestion' = currentQuestion]_vars

\* The wizard reached the last of at least three questions and came back one
\* step.
C7_Witness ==
    /\ WizardShown
    /\ Len(questions) >= 3
    /\ Len(answers) = Len(questions)
    /\ currentQuestion = Len(questions) - 2

\* ------------------------------------------------------------------------
\* Dashboard and Profile: properties
\* ------------------------------------------------------------------------

\* The career-path ids occurring in the progress list.
ProgressPathIds == {userProgress[i].career_path_id : i \in DOMAIN userProgress}

\* C8 as stated: the percentage of every catalog path lies in 0..100, and for
\* a path with a progress record it is 100 iff the record's completed count
\* equals the path's milestone count.
C8_Original ==
    ~dashLoading =>
        \A ci \in DOMAIN careerPaths :
            LET pct == getPathProgress(careerPaths[ci].id)
                pi == FindProgress(userProgress, careerPaths[ci].id, 1)
            IN  /\ pct.kind = "finite"
                /\ pct.val \in 0..100
                /\ pi # 0 =>
                      (pct.val = 100 <=>
                          userProgress[pi].completed_milestones
                              = careerPaths[ci].milestones)

\* C9 as stated: the completed count of the Dashboard and that of the Profile
\* never exceed the number of distinct path ids of the progress list.
C9_Original ==
    ~dashLoading =>
        /\ getCompletedCount <= Cardinality(ProgressPathIds)
        /\ completedPaths(userProgress, careerPaths) <= Cardinality(ProgressPathIds)

\* The sum of the values of the first i entries of a list of finite numbers.
RECURSIVE SumVals(_, _)
SumVals(nums, i) == IF i = 0 THEN 0 ELSE nums[i].val + SumVals(nums, i - 1)

\* The catalog and the progress list of the example: milestone counts 2, 4, 5
\* with 2, 4, 2 completed.
ExampleLoaded ==
    /\ ~dashLoading
    /\ careerPaths = CatalogPaths(<<2, 4, 5>>)
    /\ userProgress = <<[career_path_id |-> 2, completed_milestones |-> 4],
                        [career_path_id |-> 3, completed_milestones |-> 2],
                        [career_path_id |-> 1, completed_milestones |-> 2]>>

\* C10: the average progress is the mean of the per-path percentages of the
\* entries of the progress list, rounded to the nearest integer (a half goes
\* up): the integer a with a - 1/2 <= sum / n < a + 1/2, n the length of the
\* progress list; it is no number when one of the percentages is none; it is
\* 0 for the empty list; and in the example it is 80, the percentages are
\* 100, 40, 100 and the completed count is 2.
C10_Average ==
    LET n == Len(userProgress)
        pcts == [i \in 1..n |-> getPathProgress(userProgress[i].career_path_id)]
        a == averageProgress
    IN  /\ n = 0 => a = Num(0)
        /\ (n > 0 /\ \A i \in 1..n : pcts[i].kind = "finite") =>
              /\ a.kind = "finite"
              /\ (2 * a.val - 1) * n <= 2 * SumVals(pcts, n)
              /\ 2 * SumVals(pcts, n) < (2 * a.val + 1) * n
        /\ (n > 0 /\ \E i \in 1..n : pcts[i].kind # "finite") => a.kind # "finite"
        /\ ExampleLoaded =>
              /\ a = Num(80)
              /\ getPathProgress(2) = Num(100)
              /\ getPathProgress(3) = Num(40)
              /\ getPathProgress(1) = Num(100)
              /\ getCompletedCount = 2

\* The example has been loaded.
C10_Witness == ExampleLoaded

\* ------------------------------------------------------------------------
\* C11: getPathProgress(pathId) is 0 when the progress list has no record of
\* the path and when the catalog has no such path; otherwise it is the
\* integer nearest to 100 * completed / milestones of the first record of the
\* path (no number when the path has no milestone: the quotient is 0 / 0).
\* ------------------------------------------------------------------------

\* The smallest element of a non-empty set of indices.
First(S) == CHOOSE i \in S : \A j \in S : i <= j

RecordsOf(pathId) ==
    {i \in DOMAIN userProgress : userProgress[i].career_path_id = pathId}

PathsOf(pathId) == {i \in DOMAIN careerPaths : careerPaths[i].id = pathId}

\* r is an integer nearest to 100 * c / m, for m > 0.
NearestPercent(r, c, m) ==
    /\ r.kind = "finite"
    /\ (2 * r.val - 1) * m <= 200 * c
    /\ 200 * c <= (2 * r.val + 1) * m

C11_PathProgress ==
    \A pathId \in PathIds \cup {UnknownPathId} :
        IF RecordsOf(pathId) = {} \/ PathsOf(pathId) = {}
        THEN getPathProgress(pathId) = Num(0)
        ELSE LET c == userProgress[First(RecordsOf(pathId))].completed_milestones
                 m == careerPaths[First(PathsOf(pathId))].milestones
             IN  IF m = 0 THEN getPathProgress(pathId).kind # "finite"
                 ELSE NearestPercent(getPathProgress(pathId), c, m)

\* Loaded: path 1 has 3 milestones and a record with 2 of them (66.67 rounds
\* to 67), path 2 has no record, and a record names a path outside the catalog.
C11_Witness ==
    /\ ~dashLoading
    /\ Len(careerPaths) >= 2
    /\ careerPaths[1].milestones = 3
    /\ userProgress = <<[career_path_id |-> 1, completed_milestones |-> 2],
                        [career_path_id |-> UnknownPathId, completed_milestones |-> 2]>>
    /\ getPathProgress(1) = Num(67)
    /\ getPathProgress(2) = Num(0)
    /\ getPathProgress(UnknownPathId) = Num(0)

\* ------------------------------------------------------------------------
\* C12: a progress record counts as completed exactly when the catalog holds
\* its path and the record's number of completed milestones equals the
\* path's number of milestones; the completed count of the Dashboard and
\* that of the Profile's filter are the number of such records.
\* ------------------------------------------------------------------------

CompletedRecords ==
    {i \in DOMAIN userProgress :
        \E ci \in DOMAIN careerPaths :
            /\ careerPaths[ci].id = userProgress[i].career_path_id
            /\ userProgress[i].completed_milestones = careerPaths[ci].milestones}

C12_CompletedCount ==
    /\ getCompletedCount = Cardinality(CompletedRecords)
    /\ completedPaths(userProgress, careerPaths) = Cardinality(CompletedRecords)
    /\ \A i \in DOMAIN userProgress :
          IsCompleted(userProgress[i], careerPaths) <=> i \in CompletedRecords

\* Loaded: one record is complete (0 of 0 milestones), one has 199 of 200
\* milestones, one names a path outside the catalog.
C12_Witness ==
    /\ ~dashLoading
    /\ getCompletedCount = 1
    /\ \E i \in DOMAIN userProgress :
          /\ userProgress[i].completed_milestones = 199
          /\ i \notin CompletedRecords
    /\ \E i \in DOMAIN userProgress :
          userProgress[i].career_path_id = UnknownPathId
    /\ \E i \in CompletedRecords : userProgress[i].completed_milestones = 0

\* ------------------------------------------------------------------------
\* C13: in every state of the Profile (initial, loaded, load failed) the
\* certificate count shown equals the completed-path count shown.
\* ------------------------------------------------------------------------

C13_CertificatesCount == stats.certificatesCount = stats.completedPaths

\* Loaded with a completed path among several started ones.
C13_Witness ==
    /\ ~profLoading
    /\ stats.completedPaths = 1
    /\ stats.certificatesCount = 1
    /\ stats.totalPaths = 3
    /\ stats.achievementsCount = 1

\* ------------------------------------------------------------------------
\* C14: the three reads of the Dashboard and of the Profile are joined
\* all-or-nothing, in every order of their resolutions and rejections: the
\* screen's data is written only when all three have resolved, and once one
\* of them has rejected the data keeps its initial empty or zero value.
\* ------------------------------------------------------------------------

DashData == <<careerPaths, userProgress, achievements>>

DashDataInitial == careerPaths = <<>> /\ userProgress = <<>> /\ achievements = <<>>

StatsInitial == \A k \in DOMAIN stats : stats[k] = 0

C14_AllOrNothing ==
    /\ []((\E r \in DashRequests : dashReq[r] = "rejected") => DashDataInitial)
    /\ []((\E r \in ProfRequests : profReq[r] = "rejected") => StatsInitial)
    /\ [][/\ DashData' # DashData => \A r \in DashRequests : dashReq[r] = "resolved"
          /\ stats' # stats => \A r \in ProfRequests : profReq[r] = "resolved"]_vars

\* The Dashboard's load has ended after the achievements read rejected and
\* the other two resolved.
C14_Witness ==
    /\ mounted = "Dashboard"
    /\ ~dashLoading
    /\ dashReq = [r \in DashRequests |->
                    IF r = "achievements" THEN "rejected" ELSE "resolved"]
    /\ DashDataInitial

\* ------------------------------------------------------------------------
\* C15: after a read of the Dashboard, of the Profile or of the Certificates
\* screen has failed, the screen shows its zero or empty values: the
\* Dashboard 0 completed paths, 0 milestones, 0 achievements and an average
\* of 0, the Profile five counters of 0, the Certificates screen an empty
\* list with its loading flag cleared.
\* ------------------------------------------------------------------------

C16_Original ==
    (questionsReq = "settled" /\ ~loading /\ ~Truthy(results)) =>
        /\ At(questions, currentQuestion) # undefined
        /\ ~crashed

\* ------------------------------------------------------------------------
\* C17: after a failed login or signup the screen shows the detail string of
\* the backend when there is one and its own fallback message otherwise, has
\* not navigated and has cleared loading; Login navigates (to '/') and Signup
\* navigates (to '/quiz') only when the call has succeeded.
\* ------------------------------------------------------------------------

\* The message a rejected call leaves on the screen.
ShownAfter(err, fallback) ==
    IF err.present /\ err.detail # "" THEN err.detail ELSE fallback

C17_FailureShown ==
    /\ [](/\ loginReq.state = "rejected" => loginNavigated = "" /\ ~loginLoading
          /\ signupReq.state = "rejected" => signupNavigated = "" /\ ~signupLoading
          /\ loginNavigated # "" =>
                loginNavigated = "/" /\ loginReq.state = "resolved"
          /\ signupNavigated # "" =>
                signupNavigated = "/quiz" /\ signupReq.state = "resolved")
    /\ [][/\ (loginReq.state = "pending" /\ loginReq'.state = "rejected") =>
                loginError' = ShownAfter(loginReq', LoginFallback)
          /\ (signupReq.state = "pending" /\ signupReq'.state = "rejected") =>
                signupError' = ShownAfter(signupReq', SignupFallback)]_vars

\* A login has been rejected with a detail string, which is shown.
C17_Witness ==
    /\ mounted = "Login"
    /\ loginReq.state = "rejected"
    /\ loginReq.present
    /\ loginError = "Invalid email or password"
    /\ ~loginLoading

\* ------------------------------------------------------------------------
\* C18 as stated: for every achievement id that is none of first_step,
\* halfway_hero, path_master, speed_demon and multi_path, names of built-in
\* object properties such as 'toString' and 'constructor' included,
\* AchievementBadge and AchievementPopup return null.
\* ------------------------------------------------------------------------

KnownAchievementIds ==
    {"first_step", "halfway_hero", "path_master", "speed_demon", "multi_path"}

C18_Original ==
    (rendered.kind # "none" /\ rendered.id \notin KnownAchievementIds) =>
        rendered.kind = "null"

\* ------------------------------------------------------------------------
\* C19: the achievement lookup is pure: two renders of the same one of the
\* five ids show the same name, glyph and description, two renders of
\* different ones show different names, and path_master is shown as
\* 'Path Master' with the crown glyph.
\* ------------------------------------------------------------------------

ShowsKnown(out) == out.kind = "element" /\ out.id \in KnownAchievementIds

C19_LookupPure ==
    /\ []((ShowsKnown(rendered) /\ rendered.id = "path_master") =>
             rendered.name = "Path Master" /\ rendered.icon = "U+1F451")
    /\ [](rendered.id \in KnownAchievementIds => rendered.kind = "element")
    /\ [][(ShowsKnown(rendered) /\ ShowsKnown(rendered')) =>
             /\ rendered.id = rendered'.id =>
                   /\ rendered.name = rendered'.name
                   /\ rendered.icon = rendered'.icon
                   /\ rendered.title = rendered'.title
                   /\ rendered.description = rendered'.description
             /\ rendered.id # rendered'.id => rendered.name # rendered'.name]_vars

\* The badge of path_master has been rendered.
C19_Witness ==
    /\ mounted = "AchievementBadge"
    /\ rendered.kind = "element"
    /\ rendered.id = "path_master"
    /\ rendered.name = "Path Master"
    /\ rendered.title = "Path Master: Complete an entire career path"

\* ------------------------------------------------------------------------
\* C20: no request is retried automatically: a load request that has
\* settled is never pending again while the screen stays mounted, and every
\* step that sends a request is a user's click on a submit or download
\* control, hence no step that handles a response, failed or not, sends one.
\* ------------------------------------------------------------------------

\* The event handlers a user's click runs.
UserAction ==
    \/ handleSubmit
    \/ \E i \in 1..MaxCertificates : handleDownload(i)
    \/ loginHandleSubmit
    \/ signupHandleSubmit

\* This step handles the failure of a request.
FailureHandled ==
    \/ FailedSubmit
    \/ loginReq.state = "pending" /\ loginReq'.state = "rejected"
    \/ signupReq.state = "pending" /\ signupReq'.state = "rejected"
    \/ certReq = "pending" /\ certReq' = "rejected"
    \/ questionsReq = "pending" /\ questionsReq' = "settled"
    \/ downloads' < downloads
    \/ \E r \in DashRequests : dashReq[r] = "pending" /\ dashReq'[r] = "rejected"
    \/ \E r \in ProfRequests : profReq[r] = "pending" /\ profReq'[r] = "rejected"
    \/ dashLoading /\ ~dashLoading'
    \/ profLoading /\ ~profLoading'

C20_NoRetry ==
    [][/\ questionsReq # "pending" => questionsReq' = questionsReq
       /\ certReq # "pending" => certReq' = certReq
       /\ \A r \in DashRequests : dashReq[r] # "pending" => dashReq'[r] = dashReq[r]
       /\ \A r \in ProfRequests : profReq[r] # "pending" => profReq'[r] = profReq[r]
       /\ issued' > 0 => UserAction
       /\ FailureHandled => issued' = 0]_vars

\* A failed quiz submission has been handled and nothing is in flight.
C20_Witness ==
    /\ mounted = "Quiz"
    /\ alertMsg = "Failed to submit quiz. Please try again."
    /\ submitReq = NoRequest
    /\ ~submitting
    /\ issued = 0

\* ------------------------------------------------------------------------
\* C21: no step of the Quiz, the Dashboard, the Profile or the Certificates
\* screen changes the authenticated-user object; after a successful quiz
\* submission its quiz-completion flag and recommended paths are those of
\* the login.
\* ------------------------------------------------------------------------

DataScreens == {"Quiz", "Dashboard", "Profile", "Certificates"}

C21_UserReadOnly ==
    [][(mounted \in DataScreens) =>
          (/\ user'.quiz_completed = user.quiz_completed
           /\ user'.recommended_paths = user.recommended_paths
           /\ user' = user)]_vars

\* The quiz has been submitted with success by a user whose object still
\* says the quiz is not completed.
C21_Witness ==
    /\ mounted = "Quiz"
    /\ Truthy(results)
    /\ ~user.quiz_completed
    /\ user.recommended_paths = <<>>

\* ------------------------------------------------------------------------
\* C22: on the Quiz, the Dashboard, the Profile and the Certificates screen,
\* when every load request settles, the loading flag becomes false and stays
\* false, whether the requests resolved or rejected; a flag that is false is
\* never set again.
\* ------------------------------------------------------------------------

C22_LoadingEnds ==
    /\ (mounted = "Quiz") => <>[](~loading)
    /\ (mounted = "Dashboard") => <>[](~dashLoading)
    /\ (mounted = "Profile") => <>[](~profLoading)
    /\ (mounted = "Certificates") => <>[](~certLoading)
    /\ [][/\ ~loading => ~loading'
          /\ ~dashLoading => ~dashLoading'
          /\ ~profLoading => ~profLoading'
          /\ ~certLoading => ~certLoading']_vars

\* The Profile has left its loading branch after one read resolved and two
\* rejected.
C22_Witness ==
    /\ mounted = "Profile"
    /\ ~profLoading
    /\ profReq = [r \in ProfRequests |->
                    IF r = "progress" THEN "resolved" ELSE "rejected"]

\* ------------------------------------------------------------------------
\* C23  Dashboard, malformed response: when the three GETs resolved and the
\* achievements response has no body, the exception is caught and the three
\* lists are all populated or all left at their initial empty value.  No
\* achievement list can be read from a missing body, so the three lists are
\* all initial.
C23_Original ==
    (mounted = "Dashboard" /\ dashCaught = "TypeError") =>
        /\ ~dashLoading
        /\ DashDataInitial

\* ------------------------------------------------------------------------
\* C24  Signup validation: a submit with a password that differs from the
\* confirmation, or shorter than 6 characters, calls no signup, leaves the
\* loading flag clear and does not navigate; the message is 'Passwords do
\* not match' when the two differ and 'Password must be at least 6
\* characters' otherwise.
C24_ValidationFirst ==
    [][(signupHandleSubmit /\ (password # confirmPassword \/ Len(password) < 6)) =>
          /\ issued' = 0
          /\ signupReq' = signupReq
          /\ signupReq' # Pending
          /\ ~signupLoading'
          /\ signupNavigated' = ""
          /\ signupError' = IF password # confirmPassword
                            THEN "Passwords do not match"
                            ELSE "Password must be at least 6 characters"]_vars

\* A submit was refused for a password that is both different from the
\* confirmation and too short.
C24_Witness ==
    /\ mounted = "Signup"
    /\ signupError = "Passwords do not match"
    /\ password # confirmPassword
    /\ Len(password) < 6
    /\ signupReq = Idle
    /\ ~signupLoading

\* ------------------------------------------------------------------------
\* C25  Quiz: the filled answer slots are a contiguous prefix of the question
\* list, answers is never longer than questions, currentQuestion is at most
\* the number of filled slots, and so the 'answered' counter equals the
\* length of answers and is at most the number of questions.

\* const answeredCount = answers.filter(a => a).length
answeredCount == Cardinality({k \in DOMAIN answers : Truthy(answers[k])})

C25_ContiguousPrefix ==
    /\ \A k \in DOMAIN answers : Truthy(answers[k])
    /\ Len(answers) <= Len(questions)
    /\ currentQuestion <= answeredCount
    /\ answeredCount = Len(answers)
    /\ answeredCount <= Len(questions)

\* The first two questions are answered and the wizard shows the third,
\* unanswered one.
C25_Witness ==
    /\ mounted = "Quiz"
    /\ Len(questions) = 3
    /\ currentQuestion = 2
    /\ Len(answers) = 2
    /\ answeredCount = 2

\* ------------------------------------------------------------------------
\* C26  Quiz: at most one POST /api/quiz/submit is in flight and none is sent
\* after a success: a POST is sent only while no POST is in flight, the
\* submitting flag is false and there are no results; the flag is set while
\* a POST is in flight and once there are results, and it is cleared only
\* by the failure of the POST in flight.
C26_SingleSubmission ==
    /\ []((mounted = "Quiz" /\ submitReq # NoRequest) => submitting)
    /\ []((mounted = "Quiz" /\ Truthy(results)) => submitting /\ submitReq = NoRequest)
    /\ [][/\ (mounted = "Quiz" /\ issued' > 0) =>
                /\ issued' = 1
                /\ submitReq = NoRequest
                /\ ~submitting
                /\ ~Truthy(results)
                /\ submitReq' # NoRequest
          /\ (submitting /\ ~submitting') =>
                /\ submitReq # NoRequest
                /\ submitReq' = NoRequest
                /\ ~Truthy(results')
                /\ alertMsg' = "Failed to submit quiz. Please try again."]_vars

\* A second POST is in flight after the first one failed.
C26_Witness ==
    /\ mounted = "Quiz"
    /\ submitReq # NoRequest
    /\ submitting
    /\ alertMsg = "Failed to submit quiz. Please try again."

\* ------------------------------------------------------------------------
\* C27  Quiz: while a submission is in flight the stored answers do not
\* change, so at the step that brings the results the stored answers are
\* the answers that were sent.

\* The POST in flight is answered with the results.
ResultsArrive == mounted = "Quiz" /\ ~Truthy(results) /\ Truthy(results')

\* C27 as stated.
C27_Original ==
    [][/\ (submitReq # NoRequest /\ submitReq' # NoRequest) => answers' = answers
       /\ ResultsArrive => answers' = submitReq.answers]_vars

\* C27 amended: the answers sent are the ones stored at the click on Submit;
\* the option buttons stay enabled during the flight, so a selected option
\* may change, but no slot is added, emptied or moved to another question,
\* and the handling of the response leaves the stored answers as they are.
C27_SentAtClick ==
    /\ []((mounted = "Quiz" /\ submitReq # NoRequest) =>
             /\ Len(answers) = Len(submitReq.answers)
             /\ \A k \in DOMAIN answers :
                   /\ Truthy(answers[k])
                   /\ answers[k].question_id = submitReq.answers[k].question_id)
    /\ [][/\ (mounted = "Quiz" /\ issued' > 0) => submitReq'.answers = answers
          /\ ResultsArrive =>
                /\ answers' = answers
                /\ Len(answers') = Len(submitReq.answers)]_vars

\* A POST is in flight and a stored answer is no longer the one sent.
C27_Witness ==
    /\ mounted = "Quiz"
    /\ submitReq # NoRequest
    /\ answers # submitReq.answers
    /\ Len(answers) = Len(submitReq.answers)

\* ------------------------------------------------------------------------
\* C28  For the same progress list and catalog the Dashboard and the Profile
\* derive the same aggregates: getCompletedCount() equals the Profile's
\* completedPaths, and getTotalMilestonesCompleted() equals the Profile's
\* totalMilestones, the sum of the completed-milestone counts over all
\* progress records.

\* The counters the Profile computes from the lists the Dashboard holds.
ProfileStatsOfDashboard == NewStats(userProgress, achievements, careerPaths)

\* The completed milestones of all records, one element per milestone.
CompletedMilestones ==
    UNION {{i} \X (1..userProgress[i].completed_milestones) : i \in DOMAIN userProgress}

C28_SameAggregates ==
    (mounted = "Dashboard") =>
        /\ getCompletedCount = ProfileStatsOfDashboard.completedPaths
        /\ getTotalMilestonesCompleted = ProfileStatsOfDashboard.totalMilestones
        /\ ProfileStatsOfDashboard.totalMilestones = Cardinality(CompletedMilestones)

\* The Dashboard holds two records of the same completed path and a third
\* record.
C28_Witness ==
    /\ mounted = "Dashboard"
    /\ ~dashLoading
    /\ Len(userProgress) = 3
    /\ userProgress[1].career_path_id = userProgress[2].career_path_id
    /\ IsCompleted(userProgress[1], careerPaths)
    /\ IsCompleted(userProgress[2], careerPaths)
    /\ getCompletedCount >= 2
    /\ getTotalMilestonesCompleted > 0

\* ------------------------------------------------------------------------
\* C29  Login and Signup: the loading flag is true exactly while an
\* authentication request is in flight; a request is sent only while none is
\* in flight, so there is at most one per form; every submit clears the
\* error first, so the error shown is the one of the most recent attempt:
\* none while the request is in flight, the message of the rejection after
\* it, or (Signup) the message of the validation that refused the submit.
C29_LoadingAndError ==
    /\ [](/\ loginLoading <=> (loginReq = Pending)
          /\ signupLoading <=> (signupReq = Pending)
          /\ loginReq = Pending => loginError = ""
          /\ signupReq = Pending => signupError = ""
          /\ loginError # "" =>
                /\ loginReq.state = "rejected"
                /\ loginError = ShownAfter(loginReq, LoginFallback))
    /\ [][/\ (mounted \in {"Login", "Signup"} /\ issued' > 0) =>
                /\ issued' = 1
                /\ loginReq # Pending /\ signupReq # Pending
                /\ ~loginLoading /\ ~signupLoading
                /\ loginError' = "" /\ signupError' = ""
          /\ signupHandleSubmit =>
                signupError' = IF password # confirmPassword
                               THEN "Passwords do not match"
                               ELSE IF Len(password) < 6
                               THEN "Password must be at least 6 characters"
                               ELSE ""
          /\ (signupReq = Pending /\ signupReq' # Pending) =>
                signupError' = IF signupReq'.state = "rejected"
                               THEN ShownAfter(signupReq', SignupFallback)
                               ELSE ""]_vars

\* After a rejected signup a later submit was refused by the validation: the
\* message shown is the one of that last submit.
C29_Witness ==
    /\ mounted = "Signup"
    /\ signupReq.state = "rejected"
    /\ signupError = "Passwords do not match"
    /\ ~signupLoading

\* ------------------------------------------------------------------------
\* C30  Profile: completedPaths is at most totalPaths, and totalMilestones is
\* at least the sum of the milestone counts of the paths counted as
\* completed.
C30_StatsBounds ==
    (mounted = "Profile") =>
        /\ stats.completedPaths <= stats.totalPaths
        /\ stats.totalMilestones >= statsMilestones

\* Loaded with a completed path among records that are not completed.
C30_Witness ==
    /\ mounted = "Profile"
    /\ ~profLoading
    /\ stats.totalPaths = 3
    /\ stats.completedPaths = 1
    /\ statsMilestones = 200
    /\ stats.totalMilestones > 200

====
